---- MODULE Spec2Model ----
(***************************************************************************)
(* Model of the MCP actions backend of thepetk/backstage:                  *)
(*   - createStreamableRouter (stateless POST /, GET /, DELETE /)          *)
(*   - createSseRouter (legacy GET / stream and POST /messages)            *)
(*   - auditCreateEvent (event id normalisation)                           *)
(*   - McpService.getServer (tools/list and tools/call handlers)           *)
(* Every `await` of a handler is a suspension point: one action models the *)
(* resolution (or rejection) of the awaited call together with the         *)
(* synchronous code that runs up to the next await.  The 'close' event of  *)
(* a response is an action of its own and may interleave anywhere.         *)
(***************************************************************************)
EXTENDS Integers, Sequences, FiniteSets, TLC

\* ----------------------------------------------------------------- bounds
MaxReq == 2         \* HTTP requests in flight
MaxTime == 1        \* ticks of Date.now()
MaxPrincipal == 2   \* principals the auth service can resolve
MaxTurn == 2        \* RPC turns (tools/list, tools/call) of the service
MaxAudit == 2       \* direct calls of auditCreateEvent

Req == 1..MaxReq
Principal == 1..MaxPrincipal
Turn == 1..MaxTurn

VARIABLES
  now,                    \* Date.now()
  kind,                   \* kind[r]: which route serves request r
  pc,                     \* pc[r]: the await at which the handler is suspended
  credentials,            \* credentials[r]: principal resolved, 0 = undefined
  session,                \* session[r]: server/transport objects built, teardown calls
  events,                 \* events[r]: audit events the auditor recorded for r
  handles,                \* handles[r]: success/fail completions per audit handle
  res,                    \* res[r]: the express response of r
  error,                  \* error[r]: the value the handler caught, and the one it rejects with
  logged,                 \* logged[r]: messages passed to logger.error
  msg,                    \* msg[r]: POST /messages: sessionId parameter, lookups, dispatch
  transportsToSessionId,  \* the registry of createSseRouter (set of registered ids)
  audited,                \* direct calls of auditCreateEvent: arguments and what reached the auditor
  catalog,                \* the actions the backend currently lists
  tpc,                    \* tpc[t]: position of RPC turn t
  turn,                   \* turn[t]: method, params, credentials and results of turn t
  tevents,                \* tevents[t]: audit events recorded for turn t
  executionEvent,         \* executionEvent[t]: completions of the execution handle
  backendCalls            \* backendCalls[t]: calls made to the actions service

routerVars == <<now, kind, pc, credentials, session, events, handles, res, error,
                logged, msg, transportsToSessionId, audited>>
serviceVars == <<catalog, tpc, turn, tevents, executionEvent, backendCalls>>
vars == <<now, kind, pc, credentials, session, events, handles, res, error,
          logged, msg, transportsToSessionId, audited,
          catalog, tpc, turn, tevents, executionEvent, backendCalls>>

\* ------------------------------------------------ auditCreateEvent's event id
UpperChars == "ABCDEFGHIJKLMNOPQRSTUVWXYZ"
LowerChars == "abcdefghijklmnopqrstuvwxyz"
Separators == {" ", "-", "_", ".", ":", "/"}

CharAt(s, i) == SubSeq(s, i, i)
IsUpper(c) == \E i \in 1..Len(UpperChars) : CharAt(UpperChars, i) = c
IsLower(c) == \E i \in 1..Len(LowerChars) : CharAt(LowerChars, i) = c
ToLower(c) ==
  IF IsUpper(c)
  THEN CharAt(LowerChars, CHOOSE i \in 1..Len(UpperChars) : CharAt(UpperChars, i) = c)
  ELSE c

\* str.replace(capital_plus_lower, m => ' ' + m[0].toLowerCase() + m[1])
RECURSIVE SplitCapitalLower(_, _)
SplitCapitalLower(s, i) ==
  IF i > Len(s) THEN ""
  ELSE IF i < Len(s) /\ IsUpper(CharAt(s, i)) /\ IsLower(CharAt(s, i + 1))
       THEN " " \o ToLower(CharAt(s, i)) \o CharAt(s, i + 1) \o SplitCapitalLower(s, i + 2)
       ELSE CharAt(s, i) \o SplitCapitalLower(s, i + 1)

\* str.replace(capitals, m => ' ' + m.toLowerCase())
RECURSIVE SplitCapitals(_, _)
SplitCapitals(s, i) ==
  IF i > Len(s) THEN ""
  ELSE IF IsUpper(CharAt(s, i))
       THEN (IF i > 1 /\ IsUpper(CharAt(s, i - 1)) THEN "" ELSE " ")
            \o ToLower(CharAt(s, i)) \o SplitCapitals(s, i + 1)
       ELSE CharAt(s, i) \o SplitCapitals(s, i + 1)

\* .trim()
RECURSIVE Trim(_)
Trim(s) ==
  IF Len(s) = 0 THEN s
  ELSE IF CharAt(s, 1) = " " THEN Trim(SubSeq(s, 2, Len(s)))
  ELSE IF CharAt(s, Len(s)) = " " THEN Trim(SubSeq(s, 1, Len(s) - 1))
  ELSE s

\* .split(wordSeparators).join('-'): every maximal run of separators becomes one '-'
RECURSIVE JoinWords(_, _)
JoinWords(s, i) ==
  IF i > Len(s) THEN ""
  ELSE IF CharAt(s, i) \in Separators
       THEN (IF i > 1 /\ CharAt(s, i - 1) \in Separators THEN "" ELSE "-")
            \o JoinWords(s, i + 1)
       ELSE CharAt(s, i) \o JoinWords(s, i + 1)

\* .replace(/^-/, '').replace(/-\s*$/, '')
StripDashes(s) ==
  LET a == IF Len(s) > 0 /\ CharAt(s, 1) = "-" THEN SubSeq(s, 2, Len(s)) ELSE s
  IN  IF Len(a) > 0 /\ CharAt(a, Len(a)) = "-" THEN SubSeq(a, 1, Len(a) - 1) ELSE a

kebabCase(str) ==
  StripDashes(JoinWords(Trim(SplitCapitals(SplitCapitalLower(str, 1), 1)), 1))

UNKNOWN_MCP_EVENT == "mcp-unknown-event"

startsWith(s, prefix) == Len(s) >= Len(prefix) /\ SubSeq(s, 1, Len(prefix)) = prefix

\* eventId "" stands for an undefined or empty id (both falsy)
normalizedEventId(eventId) ==
  LET n == IF eventId # "" THEN kebabCase(eventId) ELSE UNKNOWN_MCP_EVENT
  IN  IF ~startsWith(n, "mcp-") THEN "mcp-" \o n ELSE n


\* --------------------------------------------------------------- audit events
\* auditCreateEvent: what reaches auditor.createEvent.  sessionId, duration and
\* errorMessage are the meta fields the handlers set (0 / "" when absent).
\* The ids the handlers pass are literals: their normalisation is tabulated.
EventIds == {"auth-attempt", "connection-established", "connection-closed",
             "http-error", "method-not-allowed", "connection-error",
             "invalid-session"}
\* ids a caller of the exported function may pass ("": undefined or empty)
SampleIds == {"", "auth-attempt", "mcp-auth-attempt", "authAttempt", "HTTPError",
              "Tool Not_Found", "mcp", "mcp-", "-"}
McpAuditSeverityLevel == {"low", "medium", "high", "critical"}
NormalizedIds == [eventId \in EventIds \cup SampleIds |-> normalizedEventId(eventId)]

auditCreateEvent(eventId, severityLevel, sessionId, duration, errorMessage) ==
  [eventId |-> NormalizedIds[eventId], severityLevel |-> severityLevel,
   sessionId |-> sessionId, duration |-> duration, errorMessage |-> errorMessage]

AuthAttemptEvent == auditCreateEvent("auth-attempt", "medium", 0, 0, "")
ConnectionEstablishedEvent(sid) == auditCreateEvent("connection-established", "medium", sid, 0, "")
ConnectionClosedEvent(sid, d) == auditCreateEvent("connection-closed", "low", sid, d, "")
HttpErrorEvent(e) == auditCreateEvent("http-error", "high", 0, 0, e.message)
\* the same event filed as a routine one
ConnectionErrorEventLow(e) == auditCreateEvent("connection-error", "low", 0, 0, e.message)
ConnectionErrorEvent(e) == auditCreateEvent("connection-error", "high", 0, 0, e.message)
MethodNotAllowedEvent == auditCreateEvent("method-not-allowed", "low", 0, 0, "")
InvalidSessionEvent(sid) == auditCreateEvent("invalid-session", "medium", sid, 0, "")

\* ------------------------------------------------------------------- failures
\* Values the collaborators reject with.  isError is what isError(error) /
\* `error instanceof Error` answers for the value.
NoError == [isError |-> FALSE, name |-> "", message |-> ""]
AuditError == [isError |-> TRUE, name |-> "Error", message |-> "auditor unavailable"]
AuthError == [isError |-> TRUE, name |-> "AuthenticationError", message |-> "missing credentials"]
ServerError == [isError |-> TRUE, name |-> "Error", message |-> "server build failed"]
ConnectError == [isError |-> TRUE, name |-> "Error", message |-> "already connected"]
RequestError == [isError |-> TRUE, name |-> "Error", message |-> "bad request body"]
RawError == [isError |-> FALSE, name |-> "", message |-> "raw thrown value"]

\* ------------------------------------------------------------------ responses
NoBody == [code |-> 0, message |-> "", id |-> ""]
InternalErrorBody == [code |-> -32603, message |-> "Internal server error", id |-> "null"]
MethodNotAllowedBody == [code |-> -32000, message |-> "Method not allowed.", id |-> "null"]
SessionIdRequiredBody == [code |-> 0, message |-> "sessionId is required", id |-> ""]
NoTransportBody(sid) == [code |-> 0, message |-> "No transport found for sessionId", id |-> sid]
\* what the protocol transport itself writes while handling a request
TransportBody == [code |-> 0, message |-> "transport", id |-> ""]

\* closed: 'close' was emitted; listener: a 'close' listener is registered;
\* listenerRuns: how often the listener body ran
\* eventsAtClose: how many events of the request were recorded when 'close'
\* was emitted; byTransport: the protocol transport wrote to the response
InitRes == [closed |-> FALSE, listener |-> FALSE, listenerRuns |-> 0,
            eventsAtClose |-> 0, byTransport |-> FALSE,
            headersSent |-> FALSE, ended |-> FALSE, status |-> 0, body |-> NoBody]

\* server/transport: built by the handler; serverClose/transportClose: calls of
\* server.close() / transport.close(); connectionStart: Date.now() at entry;
\* authCalls: calls of httpAuth.credentials
InitSession == [server |-> FALSE, transport |-> FALSE, connected |-> FALSE,
                serverClose |-> 0, transportClose |-> 0,
                connectionStart |-> 0, authCalls |-> 0]

HandleNames == {"authAttemptEvent", "connectionEvent", "errorEvent"}
InitHandle == [created |-> FALSE, success |-> 0, fail |-> 0]

\* sessionId: the query parameter (0: missing or empty); lookups: calls of
\* transportsToSessionId.get; dispatched: the stream handlePostMessage was called on
\* inRegistry / streamClosed / streamConnected: whether, when the handler was
\* entered, the id was registered / the response of the stream with that id
\* had closed / server.connect of the stream with that id had resolved
InitMsg == [sessionId |-> 0, lookups |-> 0, dispatched |-> 0,
            inRegistry |-> FALSE, streamClosed |-> FALSE, streamConnected |-> FALSE]

Kinds == {"post", "get", "delete", "sse", "messages"}

RouterInit ==
  /\ now = 0
  /\ kind = [r \in Req |-> "idle"]
  /\ pc = [r \in Req |-> "idle"]
  /\ credentials = [r \in Req |-> 0]
  /\ session = [r \in Req |-> InitSession]
  /\ events = [r \in Req |-> <<>>]
  /\ handles = [r \in Req |-> [h \in HandleNames |-> InitHandle]]
  /\ res = [r \in Req |-> InitRes]
  /\ error = [r \in Req |-> [caught |-> NoError, thrown |-> NoError]]
  /\ logged = [r \in Req |-> <<>>]
  /\ msg = [r \in Req |-> InitMsg]
  /\ transportsToSessionId = {}
  /\ audited = <<>>

\* auditCreateEvent(auditor, eventId, req, severityLevel, meta) is called by
\* itself: the arguments, and the event auditor.createEvent is called with
AuditCreateEvent(eventId, severityLevel, sessionId) ==
  /\ Len(audited) < MaxAudit
  /\ audited' = Append(audited,
        [eventId |-> eventId, severityLevel |-> severityLevel, sessionId |-> sessionId,
         created |-> auditCreateEvent(eventId, severityLevel, sessionId, 0, "")])
  /\ UNCHANGED <<now, kind, pc, credentials, session, events, handles, res, error,
                 logged, msg, transportsToSessionId>>
  /\ UNCHANGED serviceVars

\* handle.success() / handle.fail()
Created(hs, h) == [hs EXCEPT ![h].created = TRUE]
Success(hs, h) == [hs EXCEPT ![h].success = @ + 1]
Fail(hs, h) == [hs EXCEPT ![h].fail = @ + 1]

\* the session id of the SSEServerTransport built for request r (a fresh UUID)
SessionIdOf(r) == r

\* requests are numbered in their order of arrival
Arrives(r) == kind[r] = "idle" /\ \A q \in Req : q < r => kind[q] # "idle"

\* Date.now() advances
Tick ==
  /\ now < MaxTime
  /\ now' = now + 1
  /\ UNCHANGED <<kind, pc, credentials, session, events, handles, res, error,
                 logged, msg, transportsToSessionId>>
  /\ UNCHANGED <<audited, serviceVars>>


\* ------------------------------------------- createStreamableRouter: POST /
Append1(f, r, e) == [f EXCEPT ![r] = Append(@, e)]

\* catch (error) { if (isError(error)) logger.error(error.message); ... }
\* up to the await of auditCreateEvent(auditor, 'http-error', ...)
PostCatch(r, e) ==
  /\ error' = [error EXCEPT ![r].caught = e]
  /\ logged' = IF e.isError THEN Append1(logged, r, e.message) ELSE logged
  /\ pc' = [pc EXCEPT ![r] = "p_httpError"]

\* router.post('/') is entered: connectionStart = Date.now(), then the await of
\* auditCreateEvent(auditor, 'auth-attempt', ...)
PostEnter(r) ==
  /\ Arrives(r)
  /\ kind' = [kind EXCEPT ![r] = "post"]
  /\ pc' = [pc EXCEPT ![r] = "p_authAttempt"]
  /\ session' = [session EXCEPT ![r].connectionStart = now]
  /\ UNCHANGED <<now, credentials, events, handles, res, error, logged, msg,
                 transportsToSessionId>>
  /\ UNCHANGED <<audited, serviceVars>>

\* the 'auth-attempt' event is created (or the auditor rejects); then
\* httpAuth.credentials(req) is called
PostAuthAttempt(r) ==
  /\ kind[r] = "post" /\ pc[r] = "p_authAttempt"
  /\ \/ /\ events' = Append1(events, r, AuthAttemptEvent)
        /\ handles' = [handles EXCEPT ![r] = Created(@, "authAttemptEvent")]
        /\ session' = [session EXCEPT ![r].authCalls = @ + 1]
        /\ pc' = [pc EXCEPT ![r] = "p_credentials"]
        /\ UNCHANGED <<error, logged>>
     \/ /\ PostCatch(r, AuditError)
        /\ UNCHANGED <<events, handles, session>>
  /\ UNCHANGED <<now, kind, credentials, res, msg, transportsToSessionId>>
  /\ UNCHANGED <<audited, serviceVars>>

\* the server and the transport built whatever httpAuth.credentials answers
PostCredentialsUngated(r) ==
  /\ kind[r] = "post" /\ pc[r] = "p_credentials"
  /\ \/ \E p \in Principal :
          /\ credentials' = [credentials EXCEPT ![r] = p]
          /\ handles' = [handles EXCEPT ![r] = Success(@, "authAttemptEvent")]
     \/ UNCHANGED <<credentials, handles>>
  /\ session' = [session EXCEPT ![r].server = TRUE, ![r].transport = TRUE]
  /\ pc' = [pc EXCEPT ![r] = "p_connect"]
  /\ UNCHANGED <<now, kind, events, res, error, logged, msg, transportsToSessionId>>
  /\ UNCHANGED <<audited, serviceVars>>

\* httpAuth.credentials(req) resolves with a principal or rejects; on success
\* authAttemptEvent.success(), randomUUID(), mcpService.getServer (which may
\* throw), new StreamableHTTPServerTransport, then server.connect(transport)
PostCredentials(r) ==
  /\ kind[r] = "post" /\ pc[r] = "p_credentials"
  /\ \/ \E p \in Principal :
          /\ credentials' = [credentials EXCEPT ![r] = p]
          /\ handles' = [handles EXCEPT ![r] = Success(@, "authAttemptEvent")]
          /\ \/ /\ session' = [session EXCEPT ![r].server = TRUE, ![r].transport = TRUE]
                /\ pc' = [pc EXCEPT ![r] = "p_connect"]
                /\ UNCHANGED <<error, logged>>
             \/ /\ PostCatch(r, ServerError)
                /\ UNCHANGED session
     \/ /\ PostCatch(r, AuthError)
        /\ UNCHANGED <<credentials, handles, session>>
  /\ UNCHANGED <<now, kind, events, res, msg, transportsToSessionId>>
  /\ UNCHANGED <<audited, serviceVars>>

\* server.connect(transport) resolves or rejects; then the await of
\* auditCreateEvent(auditor, 'connection-established', ...)
PostConnect(r) ==
  /\ kind[r] = "post" /\ pc[r] = "p_connect"
  /\ \/ /\ session' = [session EXCEPT ![r].connected = TRUE]
        /\ pc' = [pc EXCEPT ![r] = "p_established"]
        /\ UNCHANGED <<error, logged>>
     \/ /\ PostCatch(r, ConnectError)
        /\ UNCHANGED session
  /\ UNCHANGED <<now, kind, credentials, events, handles, res, msg,
                 transportsToSessionId>>
  /\ UNCHANGED <<audited, serviceVars>>

\* the 'connection-established' event is created (or the auditor rejects); then
\* transport.handleRequest(req, res, req.body) is called
PostEstablished(r) ==
  /\ kind[r] = "post" /\ pc[r] = "p_established"
  /\ \/ /\ events' = Append1(events, r, ConnectionEstablishedEvent(r))
        /\ handles' = [handles EXCEPT ![r] = Created(@, "connectionEvent")]
        /\ pc' = [pc EXCEPT ![r] = "p_handleRequest"]
        /\ UNCHANGED <<error, logged>>
     \/ /\ PostCatch(r, AuditError)
        /\ UNCHANGED <<events, handles>>
  /\ UNCHANGED <<now, kind, credentials, session, res, msg, transportsToSessionId>>
  /\ UNCHANGED <<audited, serviceVars>>

\* what transport.handleRequest may have written to the response by the time
\* it settles: nothing yet, the headers, or the complete response
TransportWrote(rs) ==
  {rs,
   [rs EXCEPT !.headersSent = TRUE, !.status = 200, !.body = TransportBody,
              !.byTransport = TRUE],
   [rs EXCEPT !.headersSent = TRUE, !.status = 200, !.body = TransportBody,
              !.byTransport = TRUE, !.ended = TRUE]}

\* res.on('close', ...) after handleRequest returned
PostRegisterListener(rs) == [rs EXCEPT !.listener = TRUE]

\* transport.handleRequest resolves: res.on('close', ...) is registered and
\* connectionEvent.success() is called; or it rejects and the catch runs
PostHandleRequest(r) ==
  /\ kind[r] = "post" /\ pc[r] = "p_handleRequest"
  /\ \E rs \in TransportWrote(res[r]) :
       \/ /\ res' = [res EXCEPT ![r] = PostRegisterListener(rs)]
          /\ handles' = [handles EXCEPT ![r] = Success(@, "connectionEvent")]
          /\ pc' = [pc EXCEPT ![r] = "done"]
          /\ UNCHANGED <<error, logged>>
       \/ /\ \E e \in {RequestError, RawError} : PostCatch(r, e)
          /\ res' = [res EXCEPT ![r] = rs]
          /\ UNCHANGED handles
  /\ UNCHANGED <<now, kind, credentials, session, events, msg, transportsToSessionId>>
  /\ UNCHANGED <<audited, serviceVars>>

\* the envelope written without looking at res.headersSent
PostWriteInternalErrorAlways(rs) ==
  [rs EXCEPT !.headersSent = TRUE, !.ended = TRUE, !.status = 500,
             !.body = InternalErrorBody]

\* the guard inverted: the envelope is written only after headers were sent
PostWriteInternalErrorInverted(rs) ==
  IF rs.headersSent
  THEN [rs EXCEPT !.ended = TRUE, !.status = 500, !.body = InternalErrorBody]
  ELSE rs

\* if (!res.headersSent) res.status(500).json({... -32603 ...})
PostWriteInternalError(rs) ==
  IF ~rs.headersSent
  THEN [rs EXCEPT !.headersSent = TRUE, !.ended = TRUE, !.status = 500,
                  !.body = InternalErrorBody]
  ELSE rs

\* the 'http-error' event is created, the 500 envelope is written unless
\* headers were sent, errorEvent.fail(); or the auditor rejects inside the
\* catch and the handler itself rejects
PostHttpError(r) ==
  /\ kind[r] = "post" /\ pc[r] = "p_httpError"
  /\ \/ /\ events' = Append1(events, r, HttpErrorEvent(error[r].caught))
        /\ res' = [res EXCEPT ![r] = PostWriteInternalError(@)]
        /\ handles' = [handles EXCEPT ![r] = Fail(Created(@, "errorEvent"), "errorEvent")]
        /\ pc' = [pc EXCEPT ![r] = "done"]
        /\ UNCHANGED error
     \/ /\ error' = [error EXCEPT ![r].thrown = AuditError]
        /\ pc' = [pc EXCEPT ![r] = "failed"]
        /\ UNCHANGED <<events, res, handles>>
  /\ UNCHANGED <<now, kind, credentials, session, logged, msg, transportsToSessionId>>
  /\ UNCHANGED <<audited, serviceVars>>


\* ------------------------------- createStreamableRouter: GET / and DELETE /
\* router.get('/') / router.delete('/') is entered: the await of
\* auditCreateEvent(auditor, 'method-not-allowed', ...)
MethodEnter(r, method) ==
  /\ Arrives(r)
  /\ kind' = [kind EXCEPT ![r] = method]
  /\ pc' = [pc EXCEPT ![r] = "n_methodNotAllowed"]
  /\ UNCHANGED <<now, credentials, session, events, handles, res, error, logged,
                 msg, transportsToSessionId>>
  /\ UNCHANGED <<audited, serviceVars>>

\* the 405 sent without its payload
WriteMethodNotAllowedNoBody(rs) ==
  [rs EXCEPT !.headersSent = TRUE, !.ended = TRUE, !.status = 405]

\* res.writeHead(405).end(JSON.stringify({... -32000 ...}))
WriteMethodNotAllowed(rs) ==
  [rs EXCEPT !.headersSent = TRUE, !.ended = TRUE, !.status = 405,
             !.body = MethodNotAllowedBody]

\* the 'method-not-allowed' event is created and the 405 is written; or the
\* auditor rejects and the handler rejects
MethodNotAllowed(r) ==
  /\ kind[r] \in {"get", "delete"} /\ pc[r] = "n_methodNotAllowed"
  /\ \/ /\ events' = Append1(events, r, MethodNotAllowedEvent)
        /\ res' = [res EXCEPT ![r] = WriteMethodNotAllowed(@)]
        /\ pc' = [pc EXCEPT ![r] = "done"]
        /\ UNCHANGED error
     \/ /\ error' = [error EXCEPT ![r].thrown = AuditError]
        /\ pc' = [pc EXCEPT ![r] = "failed"]
        /\ UNCHANGED <<events, res>>
  /\ UNCHANGED <<now, kind, credentials, session, handles, logged, msg,
                 transportsToSessionId>>
  /\ UNCHANGED <<audited, serviceVars>>

\* ------------------------------------------------- createSseRouter: GET /
\* catch (error) { await auditCreateEvent(auditor, 'connection-error', ...) ...
SseCatch(r, e) ==
  /\ error' = [error EXCEPT ![r].caught = e]
  /\ pc' = [pc EXCEPT ![r] = "s_connectionError"]

\* router.get('/') of the legacy router is entered
SseEnter(r) ==
  /\ Arrives(r)
  /\ kind' = [kind EXCEPT ![r] = "sse"]
  /\ pc' = [pc EXCEPT ![r] = "s_authAttempt"]
  /\ session' = [session EXCEPT ![r].connectionStart = now]
  /\ UNCHANGED <<now, credentials, events, handles, res, error, logged, msg,
                 transportsToSessionId>>
  /\ UNCHANGED <<audited, serviceVars>>

SseAuthAttempt(r) ==
  /\ kind[r] = "sse" /\ pc[r] = "s_authAttempt"
  /\ \/ /\ events' = Append1(events, r, AuthAttemptEvent)
        /\ handles' = [handles EXCEPT ![r] = Created(@, "authAttemptEvent")]
        /\ session' = [session EXCEPT ![r].authCalls = @ + 1]
        /\ pc' = [pc EXCEPT ![r] = "s_credentials"]
        /\ UNCHANGED error
     \/ /\ SseCatch(r, AuditError)
        /\ UNCHANGED <<events, handles, session>>
  /\ UNCHANGED <<now, kind, credentials, res, logged, msg, transportsToSessionId>>
  /\ UNCHANGED <<audited, serviceVars>>

\* a registration that is forgotten
RegistrySetNothing(registry, sid) == registry
\* transportsToSessionId.set(transport.sessionId, transport)
RegistrySet(registry, sid) == registry \cup {sid}
\* transportsToSessionId.delete(transport.sessionId)
RegistryDelete(registry, sid) == registry \ {sid}
\* a lookup that answers with any registered transport
RegistryHasAny(registry, sid) == registry # {}

\* transportsToSessionId.get(sessionId), as the truthiness test of line 329
RegistryHas(registry, sid) == sid \in registry

\* httpAuth.credentials(req) settles; on success authAttemptEvent.success(),
\* getServer (may throw), new SSEServerTransport, transportsToSessionId.set,
\* then the await of auditCreateEvent(auditor, 'connection-established', ...)
SseCredentials(r) ==
  /\ kind[r] = "sse" /\ pc[r] = "s_credentials"
  /\ \/ \E p \in Principal :
          /\ credentials' = [credentials EXCEPT ![r] = p]
          /\ handles' = [handles EXCEPT ![r] = Success(@, "authAttemptEvent")]
          /\ \/ /\ session' = [session EXCEPT ![r].server = TRUE, ![r].transport = TRUE]
                /\ transportsToSessionId' = RegistrySet(transportsToSessionId, SessionIdOf(r))
                /\ pc' = [pc EXCEPT ![r] = "s_established"]
                /\ UNCHANGED error
             \/ /\ SseCatch(r, ServerError)
                /\ UNCHANGED <<session, transportsToSessionId>>
     \/ /\ SseCatch(r, AuthError)
        /\ UNCHANGED <<credentials, handles, session, transportsToSessionId>>
  /\ UNCHANGED <<now, kind, events, res, logged, msg>>
  /\ UNCHANGED <<audited, serviceVars>>

\* res.on('close', ...) after the 'connection-established' event was created
SseRegisterListener(rs) == [rs EXCEPT !.listener = TRUE]

\* the 'connection-established' event is created, the close listener is
\* registered and server.connect(transport) is called; or the auditor rejects
SseEstablished(r) ==
  /\ kind[r] = "sse" /\ pc[r] = "s_established"
  /\ \/ /\ events' = Append1(events, r, ConnectionEstablishedEvent(SessionIdOf(r)))
        /\ handles' = [handles EXCEPT ![r] = Created(@, "connectionEvent")]
        /\ res' = [res EXCEPT ![r] = SseRegisterListener(@)]
        /\ pc' = [pc EXCEPT ![r] = "s_connect"]
        /\ UNCHANGED error
     \/ /\ SseCatch(r, AuditError)
        /\ UNCHANGED <<events, handles, res>>
  /\ UNCHANGED <<now, kind, credentials, session, logged, msg, transportsToSessionId>>
  /\ UNCHANGED <<audited, serviceVars>>

\* server.connect(transport) resolves (the stream's headers and the endpoint
\* event with the session id are written) and connectionEvent.success() is
\* called; or it rejects
SseConnect(r) ==
  /\ kind[r] = "sse" /\ pc[r] = "s_connect"
  /\ \/ /\ session' = [session EXCEPT ![r].connected = TRUE]
        /\ res' = [res EXCEPT ![r].headersSent = TRUE, ![r].status = 200,
                              ![r].body = TransportBody, ![r].byTransport = TRUE]
        /\ handles' = [handles EXCEPT ![r] = Success(@, "connectionEvent")]
        /\ pc' = [pc EXCEPT ![r] = "done"]
        /\ UNCHANGED error
     \/ /\ SseCatch(r, ConnectError)
        /\ UNCHANGED <<session, res, handles>>
  /\ UNCHANGED <<now, kind, credentials, events, logged, msg, transportsToSessionId>>
  /\ UNCHANGED <<audited, serviceVars>>

\* the 'connection-error' event is created and the error is thrown again; or
\* the auditor rejects and the handler rejects with that
SseConnectionError(r) ==
  /\ kind[r] = "sse" /\ pc[r] = "s_connectionError"
  /\ \/ /\ events' = Append1(events, r, ConnectionErrorEvent(error[r].caught))
        /\ error' = [error EXCEPT ![r].thrown = error[r].caught]
     \/ /\ error' = [error EXCEPT ![r].thrown = AuditError]
        /\ UNCHANGED events
  /\ pc' = [pc EXCEPT ![r] = "failed"]
  /\ UNCHANGED <<now, kind, credentials, session, handles, res, logged, msg,
                 transportsToSessionId>>
  /\ UNCHANGED <<audited, serviceVars>>


\* ----------------------------------------- createSseRouter: POST /messages
\* router.post('/messages') is entered with req.query.sessionId = sid (0: the
\* parameter is missing or empty).  Without an id the 'invalid-session' event
\* is awaited; otherwise transportsToSessionId.get(sessionId) decides between
\* transport.handlePostMessage and the 'invalid-session' event
MessagesEnter(r, sid) ==
  /\ Arrives(r)
  /\ kind' = [kind EXCEPT ![r] = "messages"]
  /\ LET m == [msg[r] EXCEPT !.sessionId = sid,
                             !.inRegistry = sid \in transportsToSessionId,
                             !.streamClosed = sid \in Req /\ res[sid].closed,
                             !.streamConnected = /\ sid \in Req
                                                 /\ kind[sid] = "sse"
                                                 /\ session[sid].connected]
     IN  IF sid = 0
         THEN /\ msg' = [msg EXCEPT ![r] = m]
              /\ pc' = [pc EXCEPT ![r] = "m_required"]
         ELSE IF RegistryHas(transportsToSessionId, sid)
         THEN /\ msg' = [msg EXCEPT ![r] = [m EXCEPT !.lookups = @ + 1,
                                                     !.dispatched = sid]]
              /\ pc' = [pc EXCEPT ![r] = "m_handlePostMessage"]
         ELSE /\ msg' = [msg EXCEPT ![r] = [m EXCEPT !.lookups = @ + 1]]
              /\ pc' = [pc EXCEPT ![r] = "m_noTransport"]
  /\ UNCHANGED <<now, credentials, session, events, handles, res, error, logged,
                 transportsToSessionId>>
  /\ UNCHANGED <<audited, serviceVars>>

\* res.status(400).contentType('text/plain').write(...): the body is written,
\* the response is not ended
WriteBadRequest(rs, body) ==
  [rs EXCEPT !.headersSent = TRUE, !.status = 400, !.body = body]

\* the 'invalid-session' event of the missing id is created and the 400 is
\* written; or the auditor rejects
MessagesRequired(r) ==
  /\ kind[r] = "messages" /\ pc[r] = "m_required"
  /\ \/ /\ events' = Append1(events, r, InvalidSessionEvent(0))
        /\ res' = [res EXCEPT ![r] = WriteBadRequest(@, SessionIdRequiredBody)]
        /\ pc' = [pc EXCEPT ![r] = "done"]
        /\ UNCHANGED error
     \/ /\ error' = [error EXCEPT ![r].thrown = AuditError]
        /\ pc' = [pc EXCEPT ![r] = "failed"]
        /\ UNCHANGED <<events, res>>
  /\ UNCHANGED <<now, kind, credentials, session, handles, logged, msg,
                 transportsToSessionId>>
  /\ UNCHANGED <<audited, serviceVars>>

\* transport.handlePostMessage(req, res, req.body) settles: the transport has
\* answered the side channel itself, or it rejects
MessagesHandlePostMessage(r) ==
  /\ kind[r] = "messages" /\ pc[r] = "m_handlePostMessage"
  /\ \/ /\ res' = [res EXCEPT ![r].headersSent = TRUE, ![r].ended = TRUE,
                              ![r].status = 202, ![r].body = TransportBody,
                              ![r].byTransport = TRUE]
        /\ pc' = [pc EXCEPT ![r] = "done"]
        /\ UNCHANGED error
     \/ /\ error' = [error EXCEPT ![r].thrown = RequestError]
        /\ pc' = [pc EXCEPT ![r] = "failed"]
        /\ UNCHANGED res
  /\ UNCHANGED <<now, kind, credentials, session, events, handles, logged, msg,
                 transportsToSessionId>>
  /\ UNCHANGED <<audited, serviceVars>>

\* the 'invalid-session' event of the unknown id is created and the 400 naming
\* the id is written; or the auditor rejects
MessagesNoTransport(r) ==
  /\ kind[r] = "messages" /\ pc[r] = "m_noTransport"
  /\ \/ /\ events' = Append1(events, r, InvalidSessionEvent(msg[r].sessionId))
        /\ res' = [res EXCEPT ![r] = WriteBadRequest(@, NoTransportBody(msg[r].sessionId))]
        /\ pc' = [pc EXCEPT ![r] = "done"]
        /\ UNCHANGED error
     \/ /\ error' = [error EXCEPT ![r].thrown = AuditError]
        /\ pc' = [pc EXCEPT ![r] = "failed"]
        /\ UNCHANGED <<events, res>>
  /\ UNCHANGED <<now, kind, credentials, session, handles, logged, msg,
                 transportsToSessionId>>
  /\ UNCHANGED <<audited, serviceVars>>

\* ------------------------------------------------------ the 'close' signal
\* the listener of router.post('/'): duration, the un-awaited
\* auditCreateEvent(auditor, 'connection-closed', ...), transport.close(),
\* server.close()
PostOnClose(r, recorded) ==
  /\ events' = IF recorded
               THEN Append1(events, r,
                      ConnectionClosedEvent(r, now - session[r].connectionStart))
               ELSE events
  /\ session' = [session EXCEPT ![r].transportClose = @ + 1, ![r].serverClose = @ + 1]
  /\ UNCHANGED transportsToSessionId

\* the listener of the legacy router.get('/'): duration, the un-awaited
\* auditCreateEvent(auditor, 'connection-closed', ...),
\* transportsToSessionId.delete(transport.sessionId)
SseOnClose(r, recorded) ==
  /\ events' = IF recorded
               THEN Append1(events, r,
                      ConnectionClosedEvent(SessionIdOf(r), now - session[r].connectionStart))
               ELSE events
  /\ transportsToSessionId' = RegistryDelete(transportsToSessionId, SessionIdOf(r))
  /\ UNCHANGED session

\* the response of r emits 'close' (the exchange completed or the client went
\* away).  Only listeners registered by then run; `recorded` is whether the
\* auditor records the un-awaited 'connection-closed' event
ResClose(r) ==
  /\ kind[r] # "idle" /\ ~res[r].closed
  /\ IF res[r].listener
     THEN /\ res' = [res EXCEPT ![r].closed = TRUE, ![r].listenerRuns = @ + 1,
                                ![r].eventsAtClose = Len(events[r])]
          /\ \E recorded \in BOOLEAN :
               IF kind[r] = "post" THEN PostOnClose(r, recorded)
               ELSE SseOnClose(r, recorded)
     ELSE /\ res' = [res EXCEPT ![r].closed = TRUE,
                                ![r].eventsAtClose = Len(events[r])]
          /\ UNCHANGED <<events, session, transportsToSessionId>>
  /\ UNCHANGED <<now, kind, pc, credentials, handles, error, logged, msg>>
  /\ UNCHANGED <<audited, serviceVars>>

\* ------------------------------------------------ McpService.getServer
\* Actions the backend can list: {id, name, attributes}.  CreateRepoV2 has the
\* name of CreateRepo under another id.
CreateRepo == [id |-> "scaffolder:create-repo", name |-> "create-repo",
               destructive |-> TRUE, idempotent |-> FALSE, readOnly |-> FALSE]
CreateRepoV2 == [id |-> "github:create-repo", name |-> "create-repo",
                 destructive |-> FALSE, idempotent |-> TRUE, readOnly |-> FALSE]
GetEntity == [id |-> "catalog:get-entity", name |-> "get-entity",
              destructive |-> FALSE, idempotent |-> TRUE, readOnly |-> TRUE]

\* what actions.list may return
Catalogs == {<<>>, <<GetEntity>>, <<CreateRepo, GetEntity>>, <<CreateRepoV2, CreateRepo>>}
\* params.name of a tools/call request
ToolNames == {"create-repo", "get-entity", "does-not-exist"}

BackendError == [isError |-> TRUE, name |-> "Error", message |-> "backend unavailable"]
\* new NotFoundError(`Action "${params.name}" not found`)
NotFoundError(name) ==
  [isError |-> TRUE, name |-> "NotFoundError",
   message |-> "Action \"" \o name \o "\" not found"]

\* this.auditor.createEvent({eventId, severityLevel, meta}) of the service
ServiceEvent(eventId, severityLevel, toolName, toolCount) ==
  [eventId |-> eventId, severityLevel |-> severityLevel,
   toolName |-> toolName, toolCount |-> toolCount]

\* a lookup that ignores the requested name
findAny(actions, name) == IF actions = <<>> THEN <<>> ELSE <<Head(actions)>>

\* actions.find(a => a.name === params.name): the first match, <<>> when none
RECURSIVE find(_, _)
find(actions, name) ==
  IF actions = <<>> THEN <<>>
  ELSE IF Head(actions).name = name THEN <<Head(actions)>>
  ELSE find(Tail(actions), name)

\* a descriptor that claims an open world
ToolDescriptorOpenWorld(action) ==
  [name |-> action.name, destructiveHint |-> action.destructive,
   idempotentHint |-> action.idempotent, readOnlyHint |-> action.readOnly,
   openWorldHint |-> TRUE]

\* actions.map(action => ({name, annotations: {...Hint}})): no outputSchema
ToolDescriptor(action) ==
  [name |-> action.name, destructiveHint |-> action.destructive,
   idempotentHint |-> action.idempotent, readOnlyHint |-> action.readOnly,
   openWorldHint |-> FALSE]
ToolDescriptors(actions) == [i \in 1..Len(actions) |-> ToolDescriptor(actions[i])]

NamesOf(actions) == {actions[i].name : i \in 1..Len(actions)}

\* names listed to turns that settled before a new turn starts
PriorNames ==
  UNION {NamesOf(turn[t].listing) : t \in {u \in Turn : tpc[u] \in {"returned", "thrown"}}}

\* server: the request whose handler built the server (getServer) the turn
\* arrives on; credentials: the credentials that server was built with;
\* listing: what the handler's own actions.list call returned; backend: what
\* the backend held when that call resolved; prior: names listed to turns that
\* had settled when this one started
IdleTurn ==
  [method |-> "none", name |-> "", server |-> 0, credentials |-> 0, listed |-> FALSE,
   listing |-> <<>>, backend |-> <<>>, action |-> <<>>, tools |-> <<>>,
   error |-> NoError, prior |-> {}]

\* the listing of an earlier settled turn, if there is one, instead of a new one
actionsListCached ==
  IF \E u \in Turn : tpc[u] \in {"returned", "thrown"} /\ turn[u].listed
  THEN turn[CHOOSE u \in Turn : tpc[u] \in {"returned", "thrown"} /\ turn[u].listed].listing
  ELSE catalog

\* const { actions } = await this.actions.list({ credentials }): always a new
\* call, which resolves with what the backend holds now
actionsList == catalog

\* turns are numbered in their order of arrival
Starts(t) == tpc[t] = "idle" /\ \A u \in Turn : u < t => tpc[u] # "idle"

\* one closure shared by all servers: the credentials of the first connection
getServerShared(s) == credentials[1]

\* getServer({ credentials }): the handlers of a server close over the
\* credentials it was built with
getServer(s) == credentials[s]

NewTurn(method, name, s) ==
  [IdleTurn EXCEPT !.method = method, !.name = name, !.server = s,
                   !.credentials = getServer(s), !.prior = PriorNames]

ServiceInit ==
  /\ catalog \in Catalogs
  /\ tpc = [t \in Turn |-> "idle"]
  /\ turn = [t \in Turn |-> IdleTurn]
  /\ tevents = [t \in Turn |-> <<>>]
  /\ executionEvent = [t \in Turn |-> InitHandle]
  /\ backendCalls = [t \in Turn |-> <<>>]

\* the backend's action set changes between calls
SetCatalog(c) ==
  /\ catalog # c
  /\ catalog' = c
  /\ UNCHANGED <<tpc, turn, tevents, executionEvent, backendCalls>>
  /\ UNCHANGED routerVars

ListCall(p) == [op |-> "list", id |-> "", credentials |-> p]
InvokeCall(id, p) == [op |-> "invoke", id |-> id, credentials |-> p]

\* ListToolsRequestSchema handler is entered on the server built for request
\* s: this.actions.list({ credentials }) is called.  Nothing makes a request
\* wait for the turns already running on its server.
ListEnter(t, s) ==
  /\ Starts(t) /\ session[s].server
  /\ turn' = [turn EXCEPT ![t] = NewTurn("list", "", s)]
  /\ backendCalls' = Append1(backendCalls, t, ListCall(getServer(s)))
  /\ tpc' = [tpc EXCEPT ![t] = "l_list"]
  /\ UNCHANGED <<catalog, tevents, executionEvent>>
  /\ UNCHANGED routerVars

\* actions.list settles; then the await of createEvent('mcp-tool-discovery')
ListList(t) ==
  /\ tpc[t] = "l_list"
  /\ \/ /\ turn' = [turn EXCEPT ![t].listing = actionsList, ![t].listed = TRUE,
                                ![t].backend = catalog]
        /\ tpc' = [tpc EXCEPT ![t] = "l_discovery"]
     \/ /\ turn' = [turn EXCEPT ![t].error = BackendError]
        /\ tpc' = [tpc EXCEPT ![t] = "thrown"]
  /\ UNCHANGED <<catalog, tevents, executionEvent, backendCalls>>
  /\ UNCHANGED routerVars

\* the 'mcp-tool-discovery' event is created and the descriptors are returned;
\* or the auditor rejects and the handler rejects
ListDiscovery(t) ==
  /\ tpc[t] = "l_discovery"
  /\ \/ /\ tevents' = Append1(tevents, t,
               ServiceEvent("mcp-tool-discovery", "low", "", Len(turn[t].listing)))
        /\ turn' = [turn EXCEPT ![t].tools = ToolDescriptors(turn[t].listing)]
        /\ tpc' = [tpc EXCEPT ![t] = "returned"]
     \/ /\ turn' = [turn EXCEPT ![t].error = AuditError]
        /\ tpc' = [tpc EXCEPT ![t] = "thrown"]
        /\ UNCHANGED tevents
  /\ UNCHANGED <<catalog, executionEvent, backendCalls>>
  /\ UNCHANGED routerVars


\* CallToolRequestSchema handler is entered with params.name = name on the
\* server built for request s: the await of
\* createEvent('mcp-tool-execution-request')
CallEnter(t, s, name) ==
  /\ Starts(t) /\ session[s].server
  /\ turn' = [turn EXCEPT ![t] = NewTurn("call", name, s)]
  /\ tpc' = [tpc EXCEPT ![t] = "c_executionRequest"]
  /\ UNCHANGED <<catalog, tevents, executionEvent, backendCalls>>
  /\ UNCHANGED routerVars

\* a catch that rethrows without completing the handle
CallCatchNoFail(t, e) ==
  /\ turn' = [turn EXCEPT ![t].error = e]
  /\ tpc' = [tpc EXCEPT ![t] = "thrown"]
  /\ UNCHANGED executionEvent

\* catch (error) { executionEvent.fail({...}); throw error; }
CallCatch(t, e) ==
  /\ executionEvent' = [executionEvent EXCEPT ![t].fail = @ + 1]
  /\ turn' = [turn EXCEPT ![t].error = e]
  /\ tpc' = [tpc EXCEPT ![t] = "thrown"]

\* the execution-request event is created and, inside the try,
\* this.actions.list({ credentials }) is called; or the auditor rejects before
\* the try was entered
CallExecutionRequest(t) ==
  /\ tpc[t] = "c_executionRequest"
  /\ \/ /\ tevents' = Append1(tevents, t,
               ServiceEvent("mcp-tool-execution-request", "medium", turn[t].name, 0))
        /\ executionEvent' = [executionEvent EXCEPT ![t].created = TRUE]
        /\ backendCalls' = Append1(backendCalls, t, ListCall(turn[t].credentials))
        /\ tpc' = [tpc EXCEPT ![t] = "c_list"]
        /\ UNCHANGED turn
     \/ /\ turn' = [turn EXCEPT ![t].error = AuditError]
        /\ tpc' = [tpc EXCEPT ![t] = "thrown"]
        /\ UNCHANGED <<tevents, executionEvent, backendCalls>>
  /\ UNCHANGED catalog
  /\ UNCHANGED routerVars

\* actions.list settles: the action is looked up by name in what it returned;
\* found: this.actions.invoke({id: action.id, ...}) is called; not found: the
\* await of createEvent('mcp-tool-not-found'); rejected: the catch
CallList(t) ==
  /\ tpc[t] = "c_list"
  /\ \/ LET actions == actionsList
            action == find(actions, turn[t].name)
        IN  /\ turn' = [turn EXCEPT ![t].listing = actions, ![t].listed = TRUE,
                                    ![t].backend = catalog, ![t].action = action]
            /\ IF action = <<>>
               THEN /\ tpc' = [tpc EXCEPT ![t] = "c_notFound"]
                    /\ UNCHANGED backendCalls
               ELSE /\ tpc' = [tpc EXCEPT ![t] = "c_invoke"]
                    /\ backendCalls' = Append1(backendCalls, t,
                          InvokeCall(action[1].id, turn[t].credentials))
            /\ UNCHANGED executionEvent
     \/ /\ CallCatch(t, BackendError)
        /\ UNCHANGED backendCalls
  /\ UNCHANGED <<catalog, tevents>>
  /\ UNCHANGED routerVars

\* the 'mcp-tool-not-found' event is created and NotFoundError is thrown into
\* the catch; or the auditor rejects into the catch
CallNotFound(t) ==
  /\ tpc[t] = "c_notFound"
  /\ \/ /\ tevents' = Append1(tevents, t,
               ServiceEvent("mcp-tool-not-found", "medium", turn[t].name, 0))
        /\ CallCatch(t, NotFoundError(turn[t].name))
     \/ /\ CallCatch(t, AuditError)
        /\ UNCHANGED tevents
  /\ UNCHANGED <<catalog, backendCalls>>
  /\ UNCHANGED routerVars

\* actions.invoke settles: executionEvent.success({...}) and the result is
\* returned; or the catch
CallInvoke(t) ==
  /\ tpc[t] = "c_invoke"
  /\ \/ /\ executionEvent' = [executionEvent EXCEPT ![t].success = @ + 1]
        /\ tpc' = [tpc EXCEPT ![t] = "returned"]
        /\ UNCHANGED turn
     \/ CallCatch(t, BackendError)
  /\ UNCHANGED <<catalog, tevents, backendCalls>>
  /\ UNCHANGED routerVars

\* ---------------------------------------------------------- specifications
ServiceIdle ==
  /\ catalog = <<>>
  /\ tpc = [t \in Turn |-> "idle"]
  /\ turn = [t \in Turn |-> IdleTurn]
  /\ tevents = [t \in Turn |-> <<>>]
  /\ executionEvent = [t \in Turn |-> InitHandle]
  /\ backendCalls = [t \in Turn |-> <<>>]

Init == RouterInit /\ ServiceIdle

Next ==
  \/ Tick
  \/ \E r \in Req : PostEnter(r)
  \/ \E r \in Req : PostAuthAttempt(r)
  \/ \E r \in Req : PostCredentials(r)
  \/ \E r \in Req : PostConnect(r)
  \/ \E r \in Req : PostEstablished(r)
  \/ \E r \in Req : PostHandleRequest(r)
  \/ \E r \in Req : PostHttpError(r)
  \/ \E r \in Req : \E method \in {"get", "delete"} : MethodEnter(r, method)
  \/ \E r \in Req : MethodNotAllowed(r)
  \/ \E r \in Req : SseEnter(r)
  \/ \E r \in Req : SseAuthAttempt(r)
  \/ \E r \in Req : SseCredentials(r)
  \/ \E r \in Req : SseEstablished(r)
  \/ \E r \in Req : SseConnect(r)
  \/ \E r \in Req : SseConnectionError(r)
  \/ \E r \in Req : \E sid \in 0..MaxReq : MessagesEnter(r, sid)
  \/ \E r \in Req : MessagesRequired(r)
  \/ \E r \in Req : MessagesHandlePostMessage(r)
  \/ \E r \in Req : MessagesNoTransport(r)
  \/ \E r \in Req : ResClose(r)

Spec == Init /\ [][Next]_vars



ServiceNext ==
  \/ \E c \in Catalogs : SetCatalog(c)
  \/ \E t \in Turn : \E s \in Req : ListEnter(t, s)
  \/ \E t \in Turn : ListList(t)
  \/ \E t \in Turn : ListDiscovery(t)
  \/ \E t \in Turn : \E s \in Req : \E name \in ToolNames : CallEnter(t, s, name)
  \/ \E t \in Turn : CallExecutionRequest(t)
  \/ \E t \in Turn : CallList(t)
  \/ \E t \in Turn : CallNotFound(t)
  \/ \E t \in Turn : CallInvoke(t)

\* every request is a legacy stream that was opened without a failure and is
\* still open, each for a principal of its own choice
StreamsOpen ==
  /\ now = 0
  /\ kind = [r \in Req |-> "sse"]
  /\ pc = [r \in Req |-> "done"]
  /\ credentials \in [Req -> Principal]
  /\ session = [r \in Req |-> [InitSession EXCEPT !.server = TRUE, !.transport = TRUE,
                                                  !.connected = TRUE, !.authCalls = 1]]
  /\ events = [r \in Req |-> <<AuthAttemptEvent, ConnectionEstablishedEvent(SessionIdOf(r))>>]
  /\ handles = [r \in Req |->
                 [h \in HandleNames |->
                    IF h = "errorEvent" THEN InitHandle
                    ELSE [created |-> TRUE, success |-> 1, fail |-> 0]]]
  /\ res = [r \in Req |-> [InitRes EXCEPT !.listener = TRUE, !.headersSent = TRUE,
                                          !.status = 200, !.body = TransportBody,
                                          !.byTransport = TRUE]]
  /\ error = [r \in Req |-> [caught |-> NoError, thrown |-> NoError]]
  /\ logged = [r \in Req |-> <<>>]
  /\ msg = [r \in Req |-> InitMsg]
  /\ transportsToSessionId = {SessionIdOf(r) : r \in Req}
  /\ audited = <<>>

AuditNext ==
  \E eventId \in SampleIds : \E severityLevel \in McpAuditSeverityLevel :
    \E sessionId \in 0..1 : AuditCreateEvent(eventId, severityLevel, sessionId)

\* auditCreateEvent alone, applied to ids of every shape
AuditSpecInit == RouterInit /\ ServiceIdle

AuditSpec == AuditSpecInit /\ [][AuditNext]_vars

\* the service's handlers, serving the open streams
ServiceSpecInit == StreamsOpen /\ ServiceInit

ServiceSpec == ServiceSpecInit /\ [][ServiceNext]_vars


\* ------------------------------------------------------------------- claims
\* positions in events[r] of the events with the given id
EventIndices(r, eventId) == {i \in 1..Len(events[r]) : events[r][i].eventId = eventId}
Finished(r) == pc[r] \in {"done", "failed"}
Connections == {r \in Req : kind[r] \in {"post", "sse"}}

\* C1: on both transports, a connection whose 'mcp-connection-established'
\* event was recorded before its response closed has, from the close on, had
\* its 'mcp-connection-closed' event emitted exactly once by the close
\* listener; every such event carries a duration >= 0 and comes after the
\* 'mcp-connection-established' event.
C1_ClosedEventFollowsClose ==
  \A r \in Connections :
    LET established == EventIndices(r, "mcp-connection-established")
        closed == EventIndices(r, "mcp-connection-closed")
    IN  /\ Cardinality(closed) <= 1
        /\ \A i \in closed : /\ events[r][i].duration >= 0
                             /\ \A j \in established : j < i
        /\ (/\ res[r].closed
            /\ established # {}
            /\ \A j \in established : j <= res[r].eventsAtClose)
           => res[r].listenerRuns = 1

\* C4: a POST /messages request is never dispatched to a stream whose
\* response had already closed when the request looked its session id up.
C4_ClosedStreamNotResolvable ==
  \A m \in Req :
    (kind[m] = "messages" /\ msg[m].dispatched # 0) => ~msg[m].streamClosed

\* C5: for every connection whose server and transport were built, once the
\* response has closed and the handler has finished, transport.close() and
\* server.close() have each run exactly once (and on the legacy transport the
\* session id is out of the registry); they never run more than once.
C5_TeardownExactlyOnce ==
  \A r \in Connections :
    /\ session[r].transportClose <= 1 /\ session[r].serverClose <= 1
    /\ (session[r].transport /\ res[r].closed /\ Finished(r))
       => /\ session[r].transportClose = 1
          /\ session[r].serverClose = 1
          /\ kind[r] = "sse" => SessionIdOf(r) \notin transportsToSessionId

\* C7: on both transports the 'auth-attempt' handle is created before the auth
\* service is called, and once the handler has finished every handle created
\* for the auth attempt or the connection has been completed exactly once: the
\* auth-attempt handle as success if credentials were resolved, as failure if
\* not.
C7_HandlesCompletedOnce ==
  \A r \in Connections :
    /\ session[r].authCalls > 0 => handles[r]["authAttemptEvent"].created
    /\ Finished(r) =>
         /\ \A h \in {"authAttemptEvent", "connectionEvent"} :
              handles[r][h].created => handles[r][h].success + handles[r][h].fail = 1
         /\ (handles[r]["authAttemptEvent"].created /\ credentials[r] # 0)
              => handles[r]["authAttemptEvent"].success = 1
         /\ (session[r].authCalls > 0 /\ credentials[r] = 0)
              => handles[r]["authAttemptEvent"].fail = 1


Calls == {t \in Turn : turn[t].method = "call"}
BackendCallIndices(t, op) == {i \in 1..Len(backendCalls[t]) : backendCalls[t][i].op = op}
ServiceEventIndices(t, eventId) == {i \in 1..Len(tevents[t]) : tevents[t][i].eventId = eventId}
Settled(t) == tpc[t] \in {"returned", "thrown"}

\* C2: a tools/call whose 'mcp-tool-execution-request' handle was created
\* completes that handle exactly once by the time the handler returns or
\* throws: success (and no fail) when it returns, which it does only after the
\* backend invocation succeeded; fail (and no success) when it throws; and no
\* completion before that.
C2_ExecutionHandleCompletedOnce ==
  \A t \in Calls :
    LET h == executionEvent[t]
    IN  /\ h.success + h.fail <= 1
        /\ ~h.created => h.success + h.fail = 0
        /\ tpc[t] = "returned" =>
             /\ h.created /\ h.success = 1 /\ h.fail = 0
             /\ BackendCallIndices(t, "invoke") # {}
        /\ (tpc[t] = "thrown" /\ h.created) => (h.fail = 1 /\ h.success = 0)
        /\ ~Settled(t) => h.success + h.fail = 0

\* a call failed after its backend invocation was made (fail recorded) while
\* another call returned (success recorded)
C2_Witness ==
  \E t, u \in Calls :
    /\ tpc[t] = "thrown" /\ executionEvent[t].created /\ executionEvent[t].fail = 1
    /\ BackendCallIndices(t, "invoke") # {}
    /\ tpc[u] = "returned" /\ executionEvent[u].success = 1

\* C3: a tools/call lists the catalog at most once, inside the invocation, gets
\* what the backend holds at that moment, and resolves the requested name
\* against that listing.  Name absent from it:
\* actions.invoke is never called and the call throws; once the
\* 'mcp-tool-not-found' event is recorded (exactly once) the thrown error is the
\* NotFoundError naming the tool.  Name present: no 'mcp-tool-not-found' event,
\* and actions.invoke is called exactly once, after the list call, with the id
\* of the first listed action of that name.
C3_ResolvesAgainstFreshListing ==
  \A t \in Calls :
    LET listing == turn[t].listing
        name == turn[t].name
        matches == {i \in 1..Len(listing) : listing[i].name = name}
        lists == BackendCallIndices(t, "list")
        invokes == BackendCallIndices(t, "invoke")
        notFound == ServiceEventIndices(t, "mcp-tool-not-found")
    IN  /\ Cardinality(lists) <= 1
        /\ turn[t].listed => (Cardinality(lists) = 1 /\ listing = turn[t].backend)
        /\ ~turn[t].listed => (invokes = {} /\ notFound = {})
        /\ (turn[t].listed /\ matches = {}) =>
             /\ invokes = {}
             /\ tpc[t] \in {"c_notFound", "thrown"}
             /\ Cardinality(notFound) <= 1
             /\ notFound # {} => (tpc[t] = "thrown" /\ turn[t].error = NotFoundError(name))
             /\ (tpc[t] = "thrown" /\ notFound = {}) => turn[t].error = AuditError
        /\ (turn[t].listed /\ matches # {}) =>
             /\ notFound = {}
             /\ tpc[t] \in {"c_invoke", "returned", "thrown"}
             /\ Cardinality(invokes) = 1
             /\ \A i \in invokes :
                  /\ \A j \in lists : j < i
                  /\ \E k \in matches :
                       /\ \A l \in matches : k <= l
                       /\ backendCalls[t][i].id = listing[k].id

\* a call for a name that an earlier, settled turn was still listed, but that
\* its own listing no longer holds: not-found, nothing invoked
C3_Witness ==
  \E t \in Calls :
    /\ tpc[t] = "thrown"
    /\ turn[t].name \in turn[t].prior
    /\ turn[t].name \notin NamesOf(turn[t].listing)
    /\ ServiceEventIndices(t, "mcp-tool-not-found") # {}
    /\ turn[t].error = NotFoundError(turn[t].name)
    /\ BackendCallIndices(t, "invoke") = {}


\* the ids the legacy streams hold registered: set when the transport was
\* built, deleted when the close listener ran
RegisteredStreams ==
  {SessionIdOf(r) : r \in {q \in Req : /\ kind[q] = "sse"
                                       /\ session[q].transport
                                       /\ res[q].listenerRuns = 0}}
NoHandleCreated(r) == \A h \in HandleNames : ~handles[r][h].created
StatelessPosts == {r \in Req : kind[r] = "post"}

C8_MessagesOutcome ==
  /\ transportsToSessionId = RegisteredStreams
  /\ \A r \in Req : kind[r] = "messages" =>
       LET m == msg[r]
           rejected == /\ events[r] = <<>> /\ res[r].status = 0
                       /\ error[r].thrown = AuditError
           answered(sid, body) ==
                       /\ Len(events[r]) = 1
                       /\ events[r][1].eventId = "mcp-invalid-session"
                       /\ events[r][1].severityLevel = "medium"
                       /\ events[r][1].sessionId = sid
                       /\ res[r].status = 400 /\ res[r].body = body
       IN  /\ NoHandleCreated(r) /\ session[r] = InitSession
           /\ m.sessionId = 0 =>
                /\ m.lookups = 0 /\ m.dispatched = 0
                /\ pc[r] \in {"m_required", "done", "failed"}
                /\ pc[r] = "m_required" => (events[r] = <<>> /\ res[r].status = 0)
                /\ pc[r] = "done" => answered(0, SessionIdRequiredBody)
                /\ pc[r] = "failed" => rejected
           /\ (m.sessionId # 0 /\ ~m.inRegistry) =>
                /\ m.lookups = 1 /\ m.dispatched = 0
                /\ pc[r] \in {"m_noTransport", "done", "failed"}
                /\ pc[r] = "m_noTransport" => (events[r] = <<>> /\ res[r].status = 0)
                /\ pc[r] = "done" =>
                     /\ answered(m.sessionId, NoTransportBody(m.sessionId))
                     /\ res[r].body.id = m.sessionId
                /\ pc[r] = "failed" => rejected
           /\ (m.sessionId # 0 /\ m.inRegistry) =>
                /\ m.lookups = 1 /\ m.dispatched = m.sessionId
                /\ events[r] = <<>>
                /\ pc[r] \in {"m_handlePostMessage", "done", "failed"}

\* a message was forwarded to the registered stream of its id, which stays
\* registered
C8_Witness ==
  \E r \in Req :
    /\ kind[r] = "messages" /\ pc[r] = "done"
    /\ msg[r].dispatched # 0 /\ msg[r].dispatched = msg[r].sessionId
    /\ msg[r].dispatched \in transportsToSessionId
    /\ events[r] = <<>>

\* C9: GET / and DELETE / of the stateless router never call the auth service,
\* build no server or transport, create no handle, and leave the registry
\* alone; once their one low-severity 'mcp-method-not-allowed' event is
\* recorded they answer 405 with the -32000 / id null payload, the same for
\* every request.  If the auditor rejects the event the handler rejects with
\* that and writes nothing.
C9_MethodNotAllowed ==
  /\ transportsToSessionId = RegisteredStreams
  /\ \A r \in Req : kind[r] \in {"get", "delete"} =>
       /\ session[r] = InitSession /\ credentials[r] = 0
       /\ NoHandleCreated(r) /\ msg[r] = InitMsg /\ logged[r] = <<>>
       /\ pc[r] \in {"n_methodNotAllowed", "done", "failed"}
       /\ pc[r] = "n_methodNotAllowed" => (events[r] = <<>> /\ res[r].status = 0)
       /\ pc[r] = "done" =>
            /\ Len(events[r]) = 1
            /\ events[r][1].eventId = "mcp-method-not-allowed"
            /\ events[r][1].severityLevel = "low"
            /\ res[r].status = 405 /\ res[r].ended
            /\ res[r].body = [code |-> -32000, message |-> "Method not allowed.", id |-> "null"]
       /\ pc[r] = "failed" =>
            /\ events[r] = <<>> /\ res[r].status = 0
            /\ error[r].thrown = AuditError
  /\ \A r, q \in Req :
       (kind[r] \in {"get", "delete"} /\ kind[q] \in {"get", "delete"}
        /\ pc[r] = "done" /\ pc[q] = "done")
       => (res[r].status = res[q].status /\ res[r].body = res[q].body)

\* a GET / and a DELETE / were both answered
C9_Witness ==
  \E r, q \in Req :
    /\ kind[r] = "get" /\ kind[q] = "delete"
    /\ pc[r] = "done" /\ pc[q] = "done"
    /\ res[r].status = 405 /\ res[q].status = 405

\* C10: on POST /, every failure of the exchange enters the catch; once the
\* catch's one high-severity 'mcp-http-error' event is recorded the handler
\* completes it as failed (never as success) and finishes: with no response
\* bytes sent before, the response is 500 with the fixed -32603 envelope; with
\* bytes already sent by the transport, the response is left as it was.  The
\* error's text is in the event (and, for an Error, in the log), never in the
\* response.  Without a failure there is no such event and no envelope.  If the
\* auditor rejects the 'mcp-http-error' event itself the handler rejects with
\* that and writes nothing.
C10_FailureYieldsHttpError ==
  \A r \in StatelessPosts :
    LET httpError == EventIndices(r, "mcp-http-error")
        e == error[r].caught
        h == handles[r]["errorEvent"]
    IN  /\ Cardinality(httpError) <= 1
        /\ h.success = 0 /\ h.fail <= 1
        /\ e = NoError =>
             /\ httpError = {} /\ ~h.created /\ res[r].body # InternalErrorBody
             /\ pc[r] \notin {"p_httpError", "failed"}
        /\ e # NoError => pc[r] \in {"p_httpError", "done", "failed"}
        /\ (e # NoError /\ pc[r] = "p_httpError") => (httpError = {} /\ h.fail = 0)
        /\ (e # NoError /\ pc[r] = "done") =>
             /\ Cardinality(httpError) = 1
             /\ \A i \in httpError : /\ events[r][i].severityLevel = "high"
                                     /\ events[r][i].errorMessage = e.message
             /\ h.created /\ h.fail = 1
             /\ res[r].byTransport => (res[r].status = 200 /\ res[r].body = TransportBody)
             /\ ~res[r].byTransport =>
                  /\ res[r].status = 500
                  /\ res[r].body = [code |-> -32603, message |-> "Internal server error",
                                    id |-> "null"]
             /\ res[r].body.message # e.message
             /\ e.isError => \E i \in 1..Len(logged[r]) : logged[r][i] = e.message
        /\ pc[r] = "failed" =>
             /\ httpError = {} /\ ~h.created
             /\ error[r].thrown = AuditError
             /\ res[r].body # InternalErrorBody

\* one POST / failed in handleRequest after the transport had sent bytes and
\* was left as it was; another failed before any byte and was answered 500
C10_Witness ==
  \E r, q \in StatelessPosts :
    /\ pc[r] = "done" /\ error[r].caught \in {RequestError, RawError}
    /\ res[r].byTransport /\ res[r].status = 200
    /\ pc[q] = "done" /\ error[q].caught # NoError
    /\ ~res[q].byTransport /\ res[q].status = 500


LegacyStreams == {r \in Req : kind[r] = "sse"}

\* C11: on the legacy GET /, every failure of authentication or stream open
\* enters the catch; once the catch's one high-severity 'mcp-connection-error'
\* event (carrying the error's text) is recorded the handler rejects with the
\* very failure it caught.  The handler writes nothing to the response, the
\* connection handle gets no success and no failure, and no http-error event
\* or envelope exists.  Without a failure there is no such event.  If the
\* auditor rejects the 'mcp-connection-error' creation itself the handler
\* rejects with the auditor's error and no event exists.
C11_ConnectionErrorThenRethrow ==
  \A r \in LegacyStreams :
    LET connectionError == EventIndices(r, "mcp-connection-error")
        e == error[r].caught
    IN  /\ Cardinality(connectionError) <= 1
        /\ EventIndices(r, "mcp-http-error") = {} /\ ~handles[r]["errorEvent"].created
        /\ res[r].body # InternalErrorBody /\ res[r].status # 500
        /\ e = NoError =>
             /\ connectionError = {} /\ error[r].thrown = NoError
             /\ pc[r] \notin {"s_connectionError", "failed"}
        /\ e # NoError =>
             /\ pc[r] \in {"s_connectionError", "failed"}
             /\ handles[r]["connectionEvent"].success = 0
             /\ handles[r]["connectionEvent"].fail = 0
             /\ ~session[r].connected
             /\ res[r].status = 0 /\ res[r].body = NoBody /\ ~res[r].headersSent
             /\ pc[r] = "s_connectionError" =>
                  (connectionError = {} /\ error[r].thrown = NoError)
             /\ pc[r] = "failed" =>
                  \/ /\ Cardinality(connectionError) = 1
                     /\ \A i \in connectionError :
                          /\ events[r][i].severityLevel = "high"
                          /\ events[r][i].errorMessage = e.message
                          /\ i = Len(events[r]) \/ events[r][Len(events[r])].eventId = "mcp-connection-closed"
                     /\ error[r].thrown = e
                  \/ /\ connectionError = {}
                     /\ error[r].thrown = AuditError

\* one legacy open failed in authentication, another in server.connect after
\* its 'mcp-connection-established' event; both recorded the error and rethrew
C11_Witness ==
  \E r, q \in LegacyStreams :
    /\ pc[r] = "failed" /\ error[r].caught = AuthError /\ error[r].thrown = AuthError
    /\ EventIndices(r, "mcp-connection-error") # {}
    /\ pc[q] = "failed" /\ error[q].caught = ConnectError /\ error[q].thrown = ConnectError
    /\ EventIndices(q, "mcp-connection-error") # {}
    /\ EventIndices(q, "mcp-connection-established") # {}

InFlight(t) == tpc[t] \notin {"idle", "returned", "thrown"}

\* C12: two tool invocations of one session are never in flight together: the
\* handler of the second is not entered before the first has returned or
\* thrown.
C12_InvocationsSerialized ==
  \A t, u \in Calls :
    (t # u /\ turn[t].server = turn[u].server) => ~(InFlight(t) /\ InFlight(u))

\* C13: a handler (tools/list or tools/call) that has thrown to its caller has
\* completed an audit handle of its turn as failed before.
C13_FailureRecordedBeforeRaise ==
  \A t \in Turn :
    tpc[t] = "thrown" => (executionEvent[t].created /\ executionEvent[t].fail >= 1)

Lists == {t \in Turn : turn[t].method = "list"}

\* C14: a tools/list makes exactly one backend list call, under the credential
\* of its session, and no other backend call; what it gets is what the backend
\* holds when the call resolves.  When it returns it has recorded exactly one
\* low-severity 'mcp-tool-discovery' event whose toolCount is the number of
\* descriptors, and returns one descriptor per listed action, in order, with
\* the action's name and destructive / idempotent / read-only attributes,
\* openWorldHint false and no output schema.  It creates no execution handle.
\* If the backend or the auditor rejects, it throws that error and returns no
\* descriptors.
C14_ListReturnsFreshDescriptors ==
  \A t \in Lists :
    LET listing == turn[t].listing
        tools == turn[t].tools
        discovery == ServiceEventIndices(t, "mcp-tool-discovery")
    IN  /\ backendCalls[t] = <<ListCall(credentials[turn[t].server])>>
        /\ executionEvent[t] = InitHandle
        /\ Len(tevents[t]) = Cardinality(discovery) /\ Cardinality(discovery) <= 1
        /\ turn[t].listed => listing = turn[t].backend
        /\ tpc[t] \in {"l_list", "l_discovery", "returned", "thrown"}
        /\ tpc[t] = "returned" =>
             /\ turn[t].listed /\ turn[t].error = NoError
             /\ Cardinality(discovery) = 1
             /\ \A i \in discovery : /\ tevents[t][i].severityLevel = "low"
                                     /\ tevents[t][i].toolCount = Len(tools)
             /\ Len(tools) = Len(listing)
             /\ \A i \in 1..Len(listing) :
                  /\ tools[i].name = listing[i].name
                  /\ tools[i].destructiveHint = listing[i].destructive
                  /\ tools[i].idempotentHint = listing[i].idempotent
                  /\ tools[i].readOnlyHint = listing[i].readOnly
                  /\ tools[i].openWorldHint = FALSE
                  /\ "outputSchema" \notin DOMAIN tools[i]
        /\ tpc[t] # "returned" => (tools = <<>> /\ discovery = {})
        /\ tpc[t] = "thrown" =>
             /\ ~turn[t].listed => turn[t].error = BackendError
             /\ turn[t].listed => turn[t].error = AuditError

\* two list calls returned different, non-empty descriptor lists: the backend's
\* action set changed between them
C14_Witness ==
  \E t, u \in Lists :
    /\ tpc[t] = "returned" /\ tpc[u] = "returned"
    /\ turn[t].tools # <<>> /\ turn[u].tools # <<>>
    /\ Len(turn[t].tools) # Len(turn[u].tools)
    /\ turn[t].server = turn[u].server

\* lower-case words joined by single dashes
IsKebabCased(s) ==
  /\ Len(s) > 0
  /\ \A i \in 1..Len(s) : IsLower(CharAt(s, i)) \/ CharAt(s, i) = "-"
  /\ CharAt(s, 1) # "-" /\ CharAt(s, Len(s)) # "-"
  /\ \A i \in 1..(Len(s) - 1) : ~(CharAt(s, i) = "-" /\ CharAt(s, i + 1) = "-")

Built(r) ==
  \/ session[r].server \/ session[r].transport \/ session[r].connected
  \/ EventIndices(r, "mcp-connection-established") # {}
  \/ handles[r]["connectionEvent"].created
  \/ SessionIdOf(r) \in transportsToSessionId

\* C16: on both transports nothing of a connection exists (server, transport,
\* registry entry, 'mcp-connection-established' event) unless the auth service
\* resolved credentials for the request.  The order is: the 'mcp-auth-attempt'
\* event is created before the auth service is called (once); credentials are
\* resolved exactly when the auth-attempt handle has its one success; server and
\* transport are built only after that; the 'mcp-connection-established' event
\* comes after the 'mcp-auth-attempt' event and only with server and transport
\* built.  Requests of the other routes never resolve credentials and build
\* nothing.
C16_AuthGatesEverything ==
  /\ \A r \in Req \ Connections : credentials[r] = 0 /\ ~Built(r)
  /\ \A r \in Connections :
       LET authAttempt == EventIndices(r, "mcp-auth-attempt")
           established == EventIndices(r, "mcp-connection-established")
           h == handles[r]["authAttemptEvent"]
       IN  /\ Built(r) => credentials[r] # 0
           /\ session[r].authCalls <= 1
           /\ session[r].authCalls > 0 => (h.created /\ Cardinality(authAttempt) = 1)
           /\ credentials[r] # 0 => session[r].authCalls = 1
           /\ (credentials[r] # 0) <=> (h.success = 1)
           /\ h.success <= 1
           /\ session[r].server <=> session[r].transport
           /\ session[r].connected => session[r].server
           /\ SessionIdOf(r) \in transportsToSessionId => (kind[r] = "sse" /\ session[r].transport)
           /\ established # {} =>
                /\ session[r].server /\ session[r].transport
                /\ Cardinality(established) = 1
                /\ \A i \in authAttempt : \A j \in established : i < j
                /\ kind[r] = "post" => session[r].connected

\* a legacy stream was authenticated, registered and established, while a
\* stateless request whose authentication failed has finished with nothing
\* built
C16_Witness ==
  \E r, q \in Connections :
    /\ kind[r] = "sse" /\ credentials[r] # 0
    /\ SessionIdOf(r) \in transportsToSessionId
    /\ EventIndices(r, "mcp-connection-established") # {}
    /\ kind[q] = "post" /\ error[q].caught = AuthError /\ pc[q] = "done"
    /\ ~Built(q) /\ session[q].authCalls = 1

\* C17: once a legacy open has failed, the failure has been propagated and the
\* connection is closed, the registry holds no entry for that stream.
C17_FailedOpenLeavesNoEntry ==
  \A r \in LegacyStreams :
    (pc[r] = "failed" /\ res[r].closed) => SessionIdOf(r) \notin transportsToSessionId

\* C18: every turn runs on the server of one connection, and every backend
\* call it makes (list or invoke) carries the credentials resolved for that
\* connection, whatever other sessions are open; neither the credentials of a
\* connection nor the server and credentials of a started turn ever change.
C18_BackendCallsUnderSessionCredential ==
  /\ [](\A t \in Turn : tpc[t] # "idle" =>
           /\ turn[t].server \in Req /\ session[turn[t].server].server
           /\ credentials[turn[t].server] \in Principal
           /\ turn[t].credentials = credentials[turn[t].server]
           /\ \A i \in 1..Len(backendCalls[t]) :
                backendCalls[t][i].credentials = credentials[turn[t].server])
  /\ [][/\ \A r \in Req : credentials[r] # 0 => credentials'[r] = credentials[r]
        /\ \A t \in Turn : tpc[t] # "idle" =>
             /\ turn'[t].server = turn[t].server
             /\ turn'[t].credentials = turn[t].credentials
             /\ \A i \in 1..Len(backendCalls[t]) :
                  /\ Len(backendCalls'[t]) >= i
                  /\ backendCalls'[t][i] = backendCalls[t][i]]_vars

\* two invocations on the sessions of two different principals, in flight
\* together, have each reached the backend's invoke under their own principal
C18_Witness ==
  \E t, u \in Calls :
    /\ turn[t].server # turn[u].server
    /\ credentials[turn[t].server] # credentials[turn[u].server]
    /\ tpc[t] = "c_invoke" /\ tpc[u] = "c_invoke"
    /\ \E i \in BackendCallIndices(t, "invoke") :
         backendCalls[t][i].credentials = credentials[turn[t].server]
    /\ \E i \in BackendCallIndices(u, "invoke") :
         backendCalls[u][i].credentials = credentials[turn[u].server]

\* C19: a POST /messages request answered 400 (session id missing or unknown)
\* has its response ended once its handler has finished.
C19_BadRequestEnded ==
  \A r \in Req :
    (kind[r] = "messages" /\ pc[r] = "done" /\ res[r].status = 400) => res[r].ended

\* C20: the id of a legacy stream is in the registry from the moment its
\* transport is built, hence before server.connect is called and before the
\* close listener exists, until the response closes.  A POST /messages for the
\* id of a stream that was connected and had not closed when the request
\* arrived is dispatched to that stream and is never answered as unknown.
C20_RegisteredBeforeConnect ==
  /\ \A r \in LegacyStreams :
       /\ (session[r].transport /\ ~res[r].closed) => SessionIdOf(r) \in transportsToSessionId
       /\ pc[r] \in {"s_established", "s_connect"} => session[r].transport
       /\ session[r].connected => session[r].transport
       /\ res[r].listener => session[r].transport
  /\ \A m \in Req :
       (kind[m] = "messages" /\ msg[m].streamConnected /\ ~msg[m].streamClosed) =>
         /\ msg[m].inRegistry
         /\ msg[m].dispatched = msg[m].sessionId
         /\ pc[m] \in {"m_handlePostMessage", "done", "failed"}
         /\ events[m] = <<>>
         /\ res[m].status # 400

\* a message for the id of a connected, open stream was handed to that stream
C20_Witness ==
  \E m \in Req :
    /\ kind[m] = "messages" /\ msg[m].streamConnected /\ ~msg[m].streamClosed
    /\ msg[m].dispatched = msg[m].sessionId /\ pc[m] = "done"
    /\ res[m].status = 202


====
